---- MODULE Spec2Model ----
(***************************************************************************)
(* StoryGen: the chunk orchestrator (scenes2description.py), the responder  *)
(* client it spawns once per chunk (ewardea.py) and the merger             *)
(* (merge1level.py).                                                        *)
(*                                                                          *)
(* Text is a sequence of tokens.  A token is a maximal piece of a string    *)
(* that the code never looks inside: a letter of a file name, a tag, a      *)
(* whole file body, or one of the characters the code does look at          *)
(* (",", " ", "_", ".", "/", "\n", "\"", "\\").                             *)
(***************************************************************************)
EXTENDS Integers, Sequences, FiniteSets, TLC

(***************************************************************************)
(* Bounds                                                                   *)
(***************************************************************************)
MaxChunks == 3
MaxStatic == 2
MaxArgs == 2
MaxFiles == 3
MaxRuns == 2
\* read and write failures injected into one behaviour of the merger or of a
\* segmentation tool
MaxFaults == 2

(***************************************************************************)
(* Python string primitives                                                 *)
(***************************************************************************)
RECURSIVE ReplaceNonEmpty(_, _, _)
ReplaceNonEmpty(s, find, repl) ==
    IF Len(s) < Len(find) THEN s
    ELSE IF SubSeq(s, 1, Len(find)) = find
         THEN repl \o ReplaceNonEmpty(SubSeq(s, Len(find) + 1, Len(s)), find, repl)
         ELSE <<Head(s)>> \o ReplaceNonEmpty(Tail(s), find, repl)

RECURSIVE ReplaceEmpty(_, _)
ReplaceEmpty(s, repl) ==
    IF s = <<>> THEN repl
    ELSE repl \o <<Head(s)>> \o ReplaceEmpty(Tail(s), repl)

\* str.replace(find, repl): every non-overlapping occurrence, left to right;
\* an empty find matches before every character and at the end.
str_replace(s, find, repl) ==
    IF find = <<>> THEN ReplaceEmpty(s, repl) ELSE ReplaceNonEmpty(s, find, repl)

\* position of the first tok in s, 0 when there is none
FirstIndex(s, tok) ==
    IF \E i \in 1..Len(s) : s[i] = tok
    THEN CHOOSE i \in 1..Len(s) : s[i] = tok /\ \A j \in 1..(i - 1) : s[j] # tok
    ELSE 0

\* position of the last tok in s, 0 when there is none
LastIndex(s, tok) ==
    IF \E i \in 1..Len(s) : s[i] = tok
    THEN CHOOSE i \in 1..Len(s) : s[i] = tok /\ \A j \in (i + 1)..Len(s) : s[j] # tok
    ELSE 0

\* "',' in s"
has_comma(s) == FirstIndex(s, ",") # 0

\* s.split(',', 1) of a string that holds a comma
split_comma(s) ==
    <<SubSeq(s, 1, FirstIndex(s, ",") - 1), SubSeq(s, FirstIndex(s, ",") + 1, Len(s))>>

RECURSIVE lstrip(_)
lstrip(s) == IF s # <<>> /\ Head(s) \in {" ", "\n"} THEN lstrip(Tail(s)) ELSE s

RECURSIVE rstrip(_)
rstrip(s) ==
    IF s # <<>> /\ s[Len(s)] \in {" ", "\n"} THEN rstrip(SubSeq(s, 1, Len(s) - 1)) ELSE s

\* str.strip()
strip(s) == lstrip(rstrip(s))

\* os.path.basename
basename(p) == SubSeq(p, LastIndex(p, "/") + 1, Len(p))

\* os.path.splitext(name)[0]: cut at the last dot, unless the dot only
\* belongs to the leading dots of the name
splitext_root(name) ==
    LET d == LastIndex(name, ".")
    IN  IF d = 0 \/ (\A j \in 1..d : name[j] = ".") THEN name
        ELSE SubSeq(name, 1, d - 1)

\* s.split(sep) for a one-character sep
RECURSIVE split(_, _)
split(s, sep) ==
    IF FirstIndex(s, sep) = 0 THEN <<s>>
    ELSE <<SubSeq(s, 1, FirstIndex(s, sep) - 1)>>
           \o split(SubSeq(s, FirstIndex(s, sep) + 1, Len(s)), sep)

\* sep.join(parts)
RECURSIVE join(_, _)
join(sep, parts) ==
    IF parts = <<>> THEN <<>>
    ELSE IF Len(parts) = 1 THEN parts[1]
         ELSE parts[1] \o sep \o join(sep, Tail(parts))

RECURSIVE Flatten(_)
Flatten(ss) == IF ss = <<>> THEN <<>> ELSE Head(ss) \o Flatten(Tail(ss))

\* the sequences without repetition of at most n members of S
RECURSIVE DistinctSeqs(_, _)
DistinctSeqs(S, n) ==
    IF n = 0 THEN {<<>>}
    ELSE LET shorter == DistinctSeqs(S, n - 1)
         IN  shorter \cup
             {Append(q[1], q[2]) : q \in {r \in shorter \X S :
                                            \A i \in 1..Len(r[1]) : r[1][i] # r[2]}}

\* the sequences of at most n members of S
RECURSIVE BoundedSeqs(_, _)
BoundedSeqs(S, n) ==
    IF n = 0 THEN {<<>>}
    ELSE LET shorter == BoundedSeqs(S, n - 1)
         IN  shorter \cup {Append(q, x) : q \in shorter, x \in S}

(***************************************************************************)
(* The inputs of a run                                                      *)
(***************************************************************************)
\* names of the files the glob can match in the source directory
ChunkNames == {<<"a", "x", ".", "txt">>, <<"a", "y", ".", "txt">>,
               <<"b", "x", ".", "txt">>, <<"c", ".", "txt">>}

\* --source, --find, --replace (all three required and non-empty)
SourceDir == <<"src">>
FindStr == <<"x">>
ReplaceStr == <<"y">>

\* --pattern "<tag>,<pattern>" values
Patterns == {<<"SCENE", ",", "*", ".", "txt">>,
             <<" ", "SQUAREBRACKETS", " ", ",", " ", "*", ".", "txt">>}

\* os.path.join(dir, name)
path_join(dir, name) == dir \o <<"/">> \o name

ChunkPath(name) == path_join(SourceDir, name)

\* lines a 'tag_file' key of the configuration section can hold
TagFileLines == {<<"CURLYBRACKETS", ",", "ctx1">>, <<" ", "NOTES", ",", " ", "ctx2">>,
                 <<"remark">>}

\* positional arguments ewardea can be started with when run by hand
CliArgs == {<<"PARENTHESES", ",", "ctx3">>, <<"ANGLEBRACKETS", ",", "ctx1">>, <<"ctx3">>}

\* names of the files the merger's glob can match in its source directory
MergeNames == {<<"r", "_", "1", ".", "txt">>, <<"r", "_", "2", ".", "txt">>,
               <<"q", "_", "1", ".", "txt">>, <<"n", ".", "txt">>}

\* (--find, --replace) pairs of the merger; both default to ""
MergeRenames == {<<<<>>, <<>>>>, <<<<"r">>, <<"q">>>>, <<<<>>, <<"z">>>>}

\* the files that exist, and what reading one returns
StaticFiles == {<<"ctx1">>, <<"ctx2">>, <<"ctx3">>}
ExistingFiles == StaticFiles \cup {ChunkPath(n) : n \in ChunkNames}

FileText(path) ==
    CASE path = <<"ctx1">> -> <<"TEXT_ctx1">>
      [] path = <<"ctx2">> -> <<"TEXT_ctx2">>
      [] path = <<"ctx3">> -> <<"TEXT_ctx3">>
      [] path = ChunkPath(<<"a", "x", ".", "txt">>) -> <<"TEXT_ax">>
      [] path = ChunkPath(<<"a", "y", ".", "txt">>) -> <<"TEXT_ay">>
      [] path = ChunkPath(<<"b", "x", ".", "txt">>) -> <<"TEXT_bx">>
      [] path = ChunkPath(<<"c", ".", "txt">>) -> <<"TEXT_c">>
      [] path = ChunkPath(<<"r", "_", "1", ".", "txt">>) -> <<"TEXT_r1">>
      [] path = ChunkPath(<<"r", "_", "2", ".", "txt">>) -> <<"TEXT_r2">>
      [] path = ChunkPath(<<"q", "_", "1", ".", "txt">>) -> <<"TEXT_q1">>
      [] path = ChunkPath(<<"n", ".", "txt">>) -> <<"TEXT_n">>
      [] OTHER -> <<>>

TextTokens == {"TEXT_ctx1", "TEXT_ctx2", "TEXT_ctx3", "TEXT_ax", "TEXT_ay", "TEXT_bx", "TEXT_c",
               "TEXT_r1", "TEXT_r2", "TEXT_q1", "TEXT_n"}

\* the body of the prompt file
Prompt == <<"Describe", "\"", "it", "\"", "\n">>

\* what the responder can answer: textResponse absent (empty) or a text
Responses == {<<>>, <<"reply">>}

NoMsg == <<"<none>">>
Tty == <<"<stdout>">>

VARIABLES
    pc,          \* where the running tool stands
    pattern,     \* scenes2description: config["pattern"]
    configLines, \* the 'tag_file' lines of the configuration section
    urlGiven,    \* url and bearer token are resolvable (CLI or config)
    matched,     \* glob.glob(pattern): file names, in enumeration order
    find_str,    \* --find
    replace_str, \* --replace
    runs,        \* number of runs of the tool that have ended
    idx,         \* position of the for loop in matched
    output_file, \* the file the child's stdout is attached to
    dst,         \* destination directory: file name -> content
    log,         \* ERROR lines of the running tool
    spawns,      \* chunk position -> number of subprocess.run calls
    results,     \* return codes of the children reaped so far
    cpc,         \* ewardea: where run stands
    argv,        \* ewardea: positional arguments
    tuples,      \* ewardea: tag_file_tuples
    bidx,        \* ewardea: position of the for loop of build_payload_str
    payload_str, \* ewardea: payload_str
    childLog,    \* ewardea: ERROR lines (its stderr)
    wire,        \* ewardea: the message handed to requests.post, or NoMsg
    rc,          \* ewardea: exit status
    tool,        \* which segmentation tool runs
    split_str,   \* t2t: --split
    contents,    \* what reading each matched source file returns
    dirMade,     \* the destination directory has been created
    nread,       \* number of source files read so far
    units,       \* the units of the source file at hand
    uidx         \* position of the for loop over units

inputVars == <<pattern, configLines, urlGiven, matched, find_str, replace_str>>
orchVars == <<pc, idx, log, spawns, results, runs>>
childVars == <<cpc, argv, tuples, bidx, payload_str, childLog, wire, rc>>
fileVars == <<output_file, dst>>
segVars == <<tool, split_str, contents, dirMade, nread, units, uidx>>
vars == <<inputVars, orchVars, childVars, fileVars, segVars>>

(***************************************************************************)
(* scenes2description.py                                                    *)
(***************************************************************************)
\* load_configuration: the tag_file string built from the config lines
s2d_tag_file(lines) ==
    Flatten([i \in 1..Len(lines) |->
                IF has_comma(strip(lines[i])) THEN <<" ">> \o strip(lines[i]) ELSE <<>>])

\* process_files: tag of "<tag>,<pattern>"
pattern_tag(pat) == strip(split_comma(pat)[1])

\* process_files: the name of the output file of a matched path
output_file_of(file_path) ==
    str_replace(splitext_root(basename(file_path)), find_str, replace_str) \o <<".", "txt">>

\* process_files: the positional arguments of the command
command_args(pat, file_path, lines) ==
    <<pattern_tag(pat) \o <<",">> \o file_path>>
      \o (IF s2d_tag_file(lines) # <<>> THEN <<s2d_tag_file(lines)>> ELSE <<>>)

ChildIdle ==
    /\ cpc = "off" /\ argv = <<>> /\ tuples = <<>> /\ bidx = 0
    /\ payload_str = <<>> /\ childLog = <<>> /\ wire = NoMsg /\ rc = 0

\* no segmentation tool runs
SegIdle ==
    /\ tool = "none" /\ split_str = <<>> /\ contents = <<>> /\ dirMade = FALSE
    /\ nread = 0 /\ units = <<>> /\ uidx = 0

\* run up to the for loop: configuration is valid, the glob is expanded
Listing ==
    /\ pc = "Idle"
    /\ pc' = "ForEach"
    /\ idx' = 1
    /\ UNCHANGED <<inputVars, segVars, log, spawns, results, runs, childVars, fileVars>>

\* one iteration up to subprocess.run: open(output_file, "w") succeeds
OpenOutput ==
    /\ pc = "ForEach" /\ idx <= Len(matched)
    /\ LET file_path == ChunkPath(matched[idx])
       IN  /\ output_file' = output_file_of(file_path)
           /\ dst' = (output_file_of(file_path) :> <<>>) @@ dst
           /\ argv' = command_args(pattern, file_path, configLines)
    /\ spawns' = [spawns EXCEPT ![idx] = @ + 1]
    /\ cpc' = "load"
    /\ pc' = "Waiting"
    /\ UNCHANGED <<inputVars, segVars, idx, log, results, runs,
                   tuples, bidx, payload_str, childLog, wire, rc>>

\* open(output_file, "w") raises OSError: not a CalledProcessError, so it
\* leaves process_files and run() exits with status 1
OpenOutputFails ==
    /\ pc = "ForEach" /\ idx <= Len(matched)
    /\ log' = Append(log, [kind |-> "unexpected",
                           path |-> output_file_of(ChunkPath(matched[idx]))])
    /\ pc' = "Aborted"
    /\ runs' = runs + 1
    /\ UNCHANGED <<inputVars, segVars, idx, spawns, results, childVars, fileVars>>

\* Reap with the CalledProcessError left uncaught
Reap_Uncaught ==
    /\ pc = "Waiting" /\ cpc = "exited"
    /\ log' = IF rc # 0
              THEN Append(log, [kind |-> "unexpected", path |-> ChunkPath(matched[idx])])
              ELSE log
    /\ results' = Append(results, rc)
    /\ idx' = IF rc # 0 THEN idx ELSE idx + 1
    /\ pc' = IF rc # 0 THEN "Aborted" ELSE "ForEach"
    /\ cpc' = "off" /\ argv' = <<>> /\ tuples' = <<>> /\ bidx' = 0
    /\ payload_str' = <<>> /\ childLog' = <<>> /\ wire' = NoMsg /\ rc' = 0
    /\ UNCHANGED <<inputVars, segVars, spawns, runs, fileVars>>

\* subprocess.run returns or raises CalledProcessError
Reap ==
    /\ pc = "Waiting" /\ cpc = "exited"
    /\ log' = IF rc # 0
              THEN Append(log, [kind |-> "chunk", path |-> ChunkPath(matched[idx])])
              ELSE log
    /\ results' = Append(results, rc)
    /\ idx' = idx + 1
    /\ pc' = "ForEach"
    /\ cpc' = "off" /\ argv' = <<>> /\ tuples' = <<>> /\ bidx' = 0
    /\ payload_str' = <<>> /\ childLog' = <<>> /\ wire' = NoMsg /\ rc' = 0
    /\ UNCHANGED <<inputVars, segVars, spawns, runs, fileVars>>

\* the for loop is exhausted
Finish ==
    /\ pc = "ForEach" /\ idx > Len(matched)
    /\ pc' = "Done"
    /\ runs' = runs + 1
    /\ UNCHANGED <<inputVars, segVars, idx, log, spawns, results, childVars, fileVars>>

(***************************************************************************)
(* ewardea.py                                                               *)
(***************************************************************************)
parse_tuple(s) == <<strip(split_comma(s)[1]), strip(split_comma(s)[2])>>

\* load_configuration: tuples of the config lines, then of the positionals
RECURSIVE parse_all(_)
RECURSIVE parse_args(_)

\* ewardea_load_configuration with the positionals taken first
load_configuration_CliFirst(lines, args) == parse_args(args) \o parse_all(lines)

parse_all(ss) ==
    IF ss = <<>> THEN <<>>
    ELSE IF has_comma(strip(Head(ss))) THEN <<parse_tuple(strip(Head(ss)))>> \o parse_all(Tail(ss))
         ELSE parse_all(Tail(ss))

parse_args(ss) ==
    IF ss = <<>> THEN <<>> ELSE <<parse_tuple(Head(ss))>> \o parse_args(Tail(ss))

ewardea_load_configuration(lines, args) == parse_all(lines) \o parse_args(args)

\* build_payload_str: the block of one tag
Block(tag, text) ==
    CASE tag = <<"SQUAREBRACKETS">> -> <<"\n", "[">> \o text \o <<"]", "\n">>
      [] tag = <<"CURLYBRACKETS">> -> <<"\n", "{">> \o text \o <<"}", "\n">>
      [] tag = <<"PARENTHESES">> -> <<"\n", "(">> \o text \o <<")", "\n">>
      [] tag = <<"ANGLEBRACKETS">> -> <<"\n", "<">> \o text \o <<">", "\n">>
      [] OTHER -> <<"\n">> \o tag \o <<"\n">> \o text \o <<"\n">> \o tag \o <<"\n">>

\* json.dumps of a string
RECURSIVE JsonEscape(_)
JsonEscape(s) ==
    IF s = <<>> THEN <<>>
    ELSE (CASE Head(s) = "\n" -> <<"\\", "n">>
            [] Head(s) = "\"" -> <<"\\", "\"">>
            [] Head(s) = "\\" -> <<"\\", "\\">>
            [] OTHER -> <<Head(s)>>) \o JsonEscape(Tail(s))

json_dumps(s) == <<"\"">> \o JsonEscape(s) \o <<"\"">>

ChildExit(kind, file) ==
    /\ childLog' = Append(childLog, [kind |-> kind, at |-> 0, file |-> file])
    /\ rc' = 1
    /\ cpc' = "exited"

\* load_configuration and validate_configuration
ChildLoadConfiguration ==
    /\ cpc = "load"
    /\ IF \E i \in 1..Len(argv) : ~has_comma(argv[i])
       THEN /\ ChildExit("argument", <<>>)
            /\ UNCHANGED <<tuples, bidx, payload_str>>
       ELSE /\ tuples' = ewardea_load_configuration(configLines, argv)
            /\ IF ~urlGiven \/ tuples' = <<>>
               THEN /\ ChildExit("configuration", <<>>)
                    /\ UNCHANGED <<bidx, payload_str>>
               ELSE /\ cpc' = "prompt"
                    /\ UNCHANGED <<bidx, payload_str, childLog, rc>>
    /\ UNCHANGED <<inputVars, segVars, orchVars, fileVars, argv, wire>>

\* post_text_to_url: the prompt file is read
ChildReadPrompt ==
    /\ cpc = "prompt"
    /\ payload_str' = Prompt
    /\ bidx' = 1
    /\ cpc' = "build"
    /\ UNCHANGED <<inputVars, segVars, orchVars, fileVars, argv, tuples, childLog, wire, rc>>

\* post_text_to_url: reading the prompt file raises
ChildReadPromptFails ==
    /\ cpc = "prompt"
    /\ ChildExit("prompt", <<>>)
    /\ UNCHANGED <<inputVars, segVars, orchVars, fileVars, argv, tuples, bidx, payload_str, wire>>

\* build_payload_str: one iteration whose file is read
BuildAppend(tag, file_name) ==
    /\ file_name \in ExistingFiles
    /\ payload_str' = payload_str \o Block(tag, FileText(file_name))
    /\ bidx' = bidx + 1
    /\ UNCHANGED <<childLog, cpc, rc>>

\* BuildSkip with the read failure leaving build_payload_str
BuildSkip_Raises(tag, file_name) ==
    /\ childLog' = Append(childLog, [kind |-> "skipped", at |-> bidx, file |-> file_name])
    /\ rc' = 1
    /\ cpc' = "exited"
    /\ UNCHANGED <<payload_str, bidx>>

\* BuildSkip with an empty block appended for the unreadable file
BuildSkip_EmptyBlock(tag, file_name) ==
    /\ childLog' = Append(childLog, [kind |-> "skipped", at |-> bidx, file |-> file_name])
    /\ payload_str' = payload_str \o Block(tag, <<>>)
    /\ bidx' = bidx + 1
    /\ UNCHANGED <<cpc, rc>>

\* build_payload_str: one iteration whose file cannot be read
BuildSkip(tag, file_name) ==
    /\ childLog' = Append(childLog, [kind |-> "skipped", at |-> bidx, file |-> file_name])
    /\ bidx' = bidx + 1
    /\ UNCHANGED <<payload_str, cpc, rc>>

ChildBuildStep ==
    /\ cpc = "build" /\ bidx <= Len(tuples)
    /\ \/ BuildAppend(tuples[bidx][1], tuples[bidx][2])
       \/ BuildSkip(tuples[bidx][1], tuples[bidx][2])
    /\ UNCHANGED <<inputVars, segVars, orchVars, fileVars, argv, tuples, wire>>

\* post_text_to_url: the request succeeds; run prints the response
ChildPost ==
    /\ cpc = "build" /\ bidx > Len(tuples)
    /\ wire' = json_dumps(payload_str)
    /\ \E resp \in Responses :
          dst' = [dst EXCEPT ![output_file] = @ \o resp \o <<"\n">>]
    /\ rc' = 0
    /\ cpc' = "exited"
    /\ UNCHANGED <<inputVars, segVars, orchVars, output_file,
                   argv, tuples, bidx, payload_str, childLog>>

\* ChildPostFails with the error reported on standard output
ChildPostFails_Prints ==
    /\ cpc = "build" /\ bidx > Len(tuples)
    /\ wire' = json_dumps(payload_str)
    /\ ChildExit("request", <<>>)
    /\ dst' = [dst EXCEPT ![output_file] = @ \o <<"Request Error", "\n">>]
    /\ UNCHANGED <<inputVars, segVars, orchVars, output_file, argv, tuples, bidx, payload_str>>

\* post_text_to_url: the request raises (connection or HTTP status)
ChildPostFails ==
    /\ cpc = "build" /\ bidx > Len(tuples)
    /\ wire' = json_dumps(payload_str)
    /\ ChildExit("request", <<>>)
    /\ UNCHANGED <<inputVars, segVars, orchVars, fileVars, argv, tuples, bidx, payload_str>>

ChildNext ==
    \/ ChildLoadConfiguration
    \/ ChildReadPrompt
    \/ ChildReadPromptFails
    \/ ChildBuildStep
    \/ ChildPost
    \/ ChildPostFails

(***************************************************************************)
(* Specification of a scenes2description run                                *)
(***************************************************************************)
Init ==
    /\ pc = "Idle"
    /\ pattern \in Patterns
    /\ configLines \in DistinctSeqs(TagFileLines, MaxStatic)
    /\ urlGiven \in BOOLEAN
    /\ matched \in DistinctSeqs(ChunkNames, MaxChunks)
    /\ find_str = FindStr
    /\ replace_str = ReplaceStr
    /\ runs = 0
    /\ idx = 0
    /\ output_file = <<>>
    /\ dst = <<>>
    /\ log = <<>>
    /\ spawns = [i \in 1..Len(matched) |-> 0]
    /\ results = <<>>
    /\ ChildIdle
    /\ SegIdle

Next ==
    \/ Listing
    \/ OpenOutput
    \/ OpenOutputFails
    \/ Reap
    \/ Finish
    \/ ChildNext

Spec == Init /\ [][Next]_vars

\* the runs whose configuration declares at most one tag_file line
InitFair == Init /\ Len(configLines) <= 1 /\ pattern = <<"SCENE", ",", "*", ".", "txt">>

\* the run is one sequential process: it always takes its next step
FairSpec == InitFair /\ [][Next]_vars /\ WF_vars(Next)

(***************************************************************************)
(* Specification of ewardea started by hand                                 *)
(***************************************************************************)
InitMsg ==
    /\ pc = "Off"
    /\ pattern = <<>>
    /\ configLines \in DistinctSeqs(TagFileLines, MaxStatic)
    /\ urlGiven \in BOOLEAN
    /\ matched = <<>>
    /\ find_str = <<>>
    /\ replace_str = <<>>
    /\ runs = 0
    /\ idx = 0
    /\ output_file = Tty
    /\ dst = (Tty :> <<>>)
    /\ log = <<>>
    /\ spawns = <<>>
    /\ results = <<>>
    /\ cpc = "load"
    /\ argv \in BoundedSeqs(CliArgs, MaxArgs)
    /\ tuples = <<>> /\ bidx = 0 /\ payload_str = <<>>
    /\ childLog = <<>> /\ wire = NoMsg /\ rc = 0
    /\ SegIdle

SpecMsg == InitMsg /\ [][ChildNext]_vars

(***************************************************************************)
(* merge1level.py                                                           *)
(***************************************************************************)
\* merge_files: the base name without its last underscore-separated part
new_base_name(base_name) ==
    LET parts == split(base_name, "_")
    IN  join(<<"_">>, SubSeq(parts, 1, Len(parts) - 1))

\* merge_files: the name of the file a matched path is merged into
merge_output_of(file_path) ==
    str_replace(new_base_name(splitext_root(basename(file_path))), find_str, replace_str)
      \o <<".", "txt">>

\* glob.glob: a run starts
MergeStart ==
    /\ pc \in {"MIdle", "MAborted"} /\ runs < MaxRuns
    /\ pc' = "MLoop"
    /\ idx' = 1
    /\ UNCHANGED <<inputVars, segVars, log, spawns, results, runs, childVars, fileVars>>

\* MergeFile with the destination opened for writing instead of appending
MergeFile_Truncates ==
    /\ pc = "MLoop" /\ idx <= Len(matched)
    /\ LET file_path == ChunkPath(matched[idx])
           out == merge_output_of(file_path)
           block == FileText(file_path) \o <<"\n", "\n">>
       IN  dst' = (out :> block) @@ dst
    /\ idx' = idx + 1
    /\ UNCHANGED <<inputVars, segVars, pc, log, spawns, results, runs, childVars, output_file>>

\* one iteration: the file is read and appended to its destination
MergeFile ==
    /\ pc = "MLoop" /\ idx <= Len(matched)
    /\ LET file_path == ChunkPath(matched[idx])
           out == merge_output_of(file_path)
           block == FileText(file_path) \o <<"\n", "\n">>
       IN  dst' = IF out \in DOMAIN dst
                  THEN [dst EXCEPT ![out] = @ \o block]
                  ELSE (out :> block) @@ dst
    /\ idx' = idx + 1
    /\ UNCHANGED <<inputVars, segVars, pc, log, spawns, results, runs, childVars, output_file>>

\* one iteration: open(file_path) raises FileNotFoundError
MergeReadNotFound ==
    /\ pc = "MLoop" /\ idx <= Len(matched)
    /\ Len(log) < MaxFaults
    /\ log' = Append(log, [kind |-> "not found", path |-> ChunkPath(matched[idx])])
    /\ idx' = idx + 1
    /\ UNCHANGED <<inputVars, segVars, pc, spawns, results, runs, childVars, fileVars>>

\* one iteration: reading raises anything else (PermissionError,
\* UnicodeDecodeError, ...): it leaves merge_files and main exits with 1
MergeReadError ==
    /\ pc = "MLoop" /\ idx <= Len(matched)
    /\ Len(log) < MaxFaults
    /\ log' = Append(log, [kind |-> "unexpected", path |-> ChunkPath(matched[idx])])
    /\ pc' = "MAborted"
    /\ runs' = runs + 1
    /\ UNCHANGED <<inputVars, segVars, idx, spawns, results, childVars, fileVars>>

\* one iteration: opening the destination for append, or the write, raises
MergeWriteFails ==
    /\ pc = "MLoop" /\ idx <= Len(matched)
    /\ Len(log) < MaxFaults
    /\ LET out == merge_output_of(ChunkPath(matched[idx]))
       IN  /\ log' = Append(log, [kind |-> "write", path |-> out])
           /\ \/ dst' = dst
              \/ /\ out \notin DOMAIN dst
                 /\ dst' = (out :> <<>>) @@ dst
    /\ idx' = idx + 1
    /\ UNCHANGED <<inputVars, segVars, pc, spawns, results, runs, childVars, output_file>>

\* the for loop is exhausted: the run ends
MergeFinish ==
    /\ pc = "MLoop" /\ idx > Len(matched)
    /\ pc' = "MIdle"
    /\ runs' = runs + 1
    /\ UNCHANGED <<inputVars, segVars, idx, log, spawns, results, childVars, fileVars>>

InitMerge ==
    /\ pc = "MIdle"
    /\ pattern = <<>>
    /\ configLines = <<>>
    /\ urlGiven = FALSE
    /\ matched \in DistinctSeqs(MergeNames, MaxFiles)
    /\ \E fr \in MergeRenames : find_str = fr[1] /\ replace_str = fr[2]
    /\ runs = 0
    /\ idx = 0
    /\ output_file = <<>>
    /\ dst = <<>>
    /\ log = <<>>
    /\ spawns = <<>>
    /\ results = <<>>
    /\ ChildIdle
    /\ SegIdle

NextMerge ==
    \/ MergeStart
    \/ MergeFile
    \/ MergeReadNotFound
    \/ MergeReadError
    \/ MergeWriteFails
    \/ MergeFinish

SpecMerge == InitMerge /\ [][NextMerge]_vars

(***************************************************************************)
(* Vocabulary of the properties                                             *)
(***************************************************************************)
IsText(t) == t \in TextTokens

\* the file bodies that occur in a text, in order
TextsIn(s) == SelectSeq(s, IsText)

Count(s, tok) == Cardinality({i \in 1..Len(s) : s[i] = tok})

IsPrefix(s, t) == Len(s) <= Len(t) /\ SubSeq(t, 1, Len(s)) = s

\* positions of tag_file_tuples whose file build_payload_str could not read
SkippedAt == {childLog[k].at : k \in {j \in 1..Len(childLog) : childLog[j].kind = "skipped"}}

\* build_payload_str has returned and the message is about to be posted
BuildDone == cpc = "build" /\ bidx > Len(tuples)

\* the child of the current chunk has ended and is about to be reaped
ChildEnded == pc = "Waiting" /\ cpc = "exited"

\* the child of the current chunk could not read the chunk's own file
ChunkSkipped ==
    \E k \in 1..Len(childLog) :
        childLog[k].kind = "skipped" /\ childLog[k].file = ChunkPath(matched[idx])

\* the body of the file a well-formed "<tag>,<file>" declaration names
DeclaredText(decl) == FileText(<<decl[Len(decl)]>>)

(***************************************************************************)
(* C1..C6: the chunk orchestrator                                           *)
(***************************************************************************)
\* C1: whatever children exit non-zero, the loop advances to the next chunk:
\* a child that ended (with any status) is followed by the next iteration,
\* no chunk is ever spawned twice, at Done every matched chunk has been
\* spawned exactly once, and once the last chunk has been attempted the run
\* reaches Done.
C1_LoopAdvancesPastFailures ==
    /\ [][(ChildEnded /\ rc # 0) => (pc' = "ForEach" /\ idx' = idx + 1)]_vars
    /\ [](\A i \in DOMAIN spawns : spawns[i] <= 1)
    /\ [](pc = "Done" => \A i \in 1..Len(matched) : spawns[i] = 1)
    /\ [][(pc = "Waiting" /\ pc' # "Waiting") => (pc' = "ForEach" /\ idx' = idx + 1)]_vars
    /\ (pc = "Waiting") ~> (pc = "ForEach")
    /\ (pc = "Waiting" /\ idx = Len(matched)) ~> (pc = "Done")

\* a run of three chunks in which only the second child failed has ended
C1_Witness ==
    /\ pc = "Done" /\ Len(matched) = 3
    /\ results[1] = 0 /\ results[2] # 0 /\ results[3] = 0

\* C2: at Done the destination holds as many files as there were successful
\* children, a chunk whose child failed has no output file, and its path is
\* in the log.
C2_OneOutputPerSuccess ==
    pc = "Done" =>
        /\ Cardinality(DOMAIN dst)
             = Cardinality({i \in 1..Len(matched) : results[i] = 0})
        /\ \A i \in 1..Len(matched) :
              results[i] # 0 =>
                  /\ output_file_of(ChunkPath(matched[i])) \notin DOMAIN dst
                  /\ \E k \in 1..Len(log) : log[k].path = ChunkPath(matched[i])

\* a destination file appears, or a non-empty one becomes empty
CreatedOrTruncated ==
    \E f \in DOMAIN dst' :
        \/ f \notin DOMAIN dst
        \/ dst'[f] = <<>> /\ dst[f] # <<>>

\* C3: a destination file is created or truncated only by the step in which
\* the responder call returns, and an iteration starts only when no child of
\* an earlier chunk is still running.
C3_WriteAfterDispatch ==
    [][/\ CreatedOrTruncated => (wire = NoMsg /\ wire' # NoMsg)
       /\ (pc = "ForEach" /\ pc' = "Waiting") => cpc = "off"]_vars

\* C4: when the run has ended, every matched chunk has been attempted: its
\* child was spawned, or the failure to open its destination file is logged.
C4_BatchContinuesAfterWriteError ==
    pc \in {"Done", "Aborted"} =>
        \A i \in 1..Len(matched) :
            \/ spawns[i] = 1
            \/ \E k \in 1..Len(log) :
                  log[k].path = output_file_of(ChunkPath(matched[i]))

\* C5 as claimed: a child that could not read the chunk's own file does not
\* invoke the responder.
C5_UnreadableChunkNotDispatched ==
    (ChildEnded /\ ChunkSkipped) => wire = NoMsg

\* C5 as amended: a child that could not read the chunk's own file has logged
\* the failure and has still invoked the responder, with a message that does
\* not hold the chunk's text; the loop then advances to the next chunk.
C5_UnreadableChunkOmitted ==
    /\ [](ChildEnded /\ ChunkSkipped =>
            /\ wire # NoMsg
            /\ Count(wire, FileText(ChunkPath(matched[idx]))[1]) = 0
            /\ IsPrefix(<<"\"", "Describe">>, wire))
    /\ [][(ChildEnded /\ ChunkSkipped) => (pc' = "ForEach" /\ idx' = idx + 1)]_vars

\* the child of a chunk whose own file was unreadable has posted a message
C5_Witness == ChildEnded /\ ChunkSkipped /\ wire # NoMsg /\ configLines # <<>>

\* C6: when every existing file was read, the chunk's text is the first file
\* body of the message and every configured association's body occurs in it
\* exactly once.
C6_ChunkBlockFirst ==
    (pc = "Waiting" /\ BuildDone
       /\ \A k \in 1..Len(childLog) : childLog[k].file \notin ExistingFiles) =>
        LET texts == TextsIn(payload_str)
        IN  /\ texts # <<>>
            /\ texts[1] = FileText(ChunkPath(matched[idx]))[1]
            /\ \A k \in 1..Len(configLines) :
                  has_comma(configLines[k]) =>
                      Count(texts, DeclaredText(configLines[k])[1]) = 1

(***************************************************************************)
(* C7, C8: the message builder                                              *)
(***************************************************************************)
\* the bodies of the declarations from position i on that were read
RECURSIVE ExpectedTexts(_, _, _)
ExpectedTexts(decls, i, skip) ==
    IF i > Len(decls) THEN <<>>
    ELSE (IF i \in skip THEN <<>> ELSE DeclaredText(decls[i]))
           \o ExpectedTexts(decls, i + 1, skip)

\* C7: the finished message starts with the prompt, and the file bodies that
\* follow it are those of the config-declared associations in line order and
\* then those of the CLI-declared associations in argument order.
C7_DeclarationOrder ==
    BuildDone =>
        /\ IsPrefix(Prompt, payload_str)
        /\ TextsIn(SubSeq(payload_str, Len(Prompt) + 1, Len(payload_str)))
             = ExpectedTexts(SelectSeq(configLines, has_comma) \o argv, 1, SkippedAt)

\* a message with a config-declared and a CLI-declared body has been built
C7_Witness ==
    /\ BuildDone /\ SkippedAt = {}
    /\ Len(SelectSeq(configLines, has_comma)) >= 1 /\ Len(argv) = 2
    /\ Len(TextsIn(payload_str)) >= 3

\* the blocks of the tuples at positions i..n that were read
RECURSIVE BlocksOf(_, _, _, _)
BlocksOf(tps, i, n, skip) ==
    IF i > n THEN <<>>
    ELSE (IF i \in skip THEN <<>> ELSE Block(tps[i][1], FileText(tps[i][2])))
           \o BlocksOf(tps, i + 1, n, skip)

\* C8: while the message is built it is the prompt followed by the blocks of
\* exactly the associations read so far, in order, and a child that skipped
\* an unreadable file still completed and posted its message.
C8_UnreadableBlockOmitted ==
    /\ cpc = "build" =>
          payload_str = Prompt \o BlocksOf(tuples, 1, bidx - 1, SkippedAt)
    /\ (cpc = "exited" /\ SkippedAt # {}) =>
          /\ wire # NoMsg
          /\ payload_str = Prompt \o BlocksOf(tuples, 1, Len(tuples), SkippedAt)

\* a message whose first association was unreadable and whose second was
\* read has been posted
C8_Witness ==
    /\ cpc = "exited" /\ rc = 0 /\ wire # NoMsg
    /\ Len(tuples) >= 2 /\ 1 \in SkippedAt /\ 2 \notin SkippedAt

(***************************************************************************)
(* C9, C10: the merger                                                      *)
(***************************************************************************)
FirstHalf(s) == SubSeq(s, 1, Len(s) \div 2)
SecondHalf(s) == SubSeq(s, Len(s) \div 2 + 1, Len(s))

\* C9: no step removes a destination file or changes what it already holds,
\* and after two runs without failures every destination file is one text
\* twice over, each matched file's body lying once in the first and once in
\* the second half of exactly one destination file.
C9_AppendOnlyDuplicates ==
    /\ [][\A f \in DOMAIN dst : f \in DOMAIN dst' /\ IsPrefix(dst[f], dst'[f])]_vars
    /\ []((runs = 2 /\ pc = "MIdle" /\ log = <<>>) =>
            /\ \A f \in DOMAIN dst : FirstHalf(dst[f]) = SecondHalf(dst[f])
            /\ \A i \in 1..Len(matched) :
                  LET tok == FileText(ChunkPath(matched[i]))[1]
                      holders == {f \in DOMAIN dst : Count(dst[f], tok) > 0}
                  IN  /\ Cardinality(holders) = 1
                      /\ \A f \in holders :
                            /\ Count(FirstHalf(dst[f]), tok) = 1
                            /\ Count(SecondHalf(dst[f]), tok) = 1)

\* two runs without failures over a group of two files and one other file
C9_Witness ==
    /\ runs = 2 /\ pc = "MIdle" /\ log = <<>> /\ Len(matched) = 3
    /\ \E f \in DOMAIN dst : Len(TextsIn(dst[f])) = 4

\* C10: when the first run has ended, every matched file whose read or write
\* failure is not in the log has been merged into a destination file.
C10_OnlyFailedFileSkipped ==
    (runs = 1 /\ pc \in {"MIdle", "MAborted"}) =>
        \A i \in 1..Len(matched) :
            \/ \E k \in 1..Len(log) :
                  log[k].path \in {ChunkPath(matched[i]),
                                   merge_output_of(ChunkPath(matched[i]))}
            \/ \E f \in DOMAIN dst :
                  Count(dst[f], FileText(ChunkPath(matched[i]))[1]) > 0

(***************************************************************************)
(* C11: what a merge over an empty destination leaves                      *)
(***************************************************************************)
\* the base name without its trailing "_token"; empty when it has no "_"
DeriveMergeKey(base) == SubSeq(base, 1, LastIndex(base, "_") - 1)

\* a literal replacement that leaves the name alone when find is empty
DeriveOutputBase(base, find, repl) ==
    IF find = <<>> THEN base ELSE ReplaceNonEmpty(base, find, repl)

\* the merge key of the i-th matched file
MergeKeyOf(i) ==
    DeriveOutputBase(DeriveMergeKey(splitext_root(matched[i])), find_str, replace_str)

\* content plus two newlines of the matched files from position i on whose
\* merge key is key, in enumeration order
RECURSIVE MergedFrom(_, _)
MergedFrom(key, i) ==
    IF i > Len(matched) THEN <<>>
    ELSE (IF MergeKeyOf(i) = key
          THEN FileText(ChunkPath(matched[i])) \o <<"\n", "\n">>
          ELSE <<>>) \o MergedFrom(key, i + 1)

\* the first run over an empty destination has ended without any failure
MergedCleanly == runs = 1 /\ pc = "MIdle" /\ log = <<>>

\* C11: after a failure-free merge over an empty destination the files of
\* the destination are exactly the "{key}.txt" of the merge keys of the
\* matched files, each holding content plus two newlines of the files of
\* its key in enumeration order; a name without "_" has the empty key and
\* is merged into ".txt".
C11_GroupedByMergeKey ==
    MergedCleanly =>
        /\ DOMAIN dst = {MergeKeyOf(i) \o <<".", "txt">> : i \in 1..Len(matched)}
        /\ \A i \in 1..Len(matched) :
              /\ MergeKeyOf(i) \o <<".", "txt">> \in DOMAIN dst
              /\ dst[MergeKeyOf(i) \o <<".", "txt">>] = MergedFrom(MergeKeyOf(i), 1)
              /\ LastIndex(matched[i], "_") = 0 => <<".", "txt">> \in DOMAIN dst

(***************************************************************************)
(* The segmentation tools: text2paragraph.py, paragraph2sentences.py and   *)
(* t2t.py                                                                   *)
(***************************************************************************)
\* number of source files the glob of a segmentation tool can match
MaxSources == 2

\* position of the first occurrence of sep in s, 0 when there is none
FindSeq(s, sep) ==
    LET hits == {i \in 1..(Len(s) - Len(sep) + 1) : SubSeq(s, i, i + Len(sep) - 1) = sep}
    IN  IF hits = {} THEN 0 ELSE CHOOSE i \in hits : \A j \in hits : i <= j

\* s.split(sep) for a non-empty sep of any length
RECURSIVE split_on(_, _)
split_on(s, sep) ==
    LET at == FindSeq(s, sep)
    IN  IF at = 0 THEN <<s>>
        ELSE <<SubSeq(s, 1, at - 1)>> \o split_on(SubSeq(s, at + Len(sep), Len(s)), sep)

Whitespace == {" ", "\n"}
Terminators == {".", "!", "?"}

\* re.split(r'(?<=[.!?])\s+', s): cut at every run of whitespace that
\* follows a terminator; the run is discarded
RECURSIVE split_sentences(_)
split_sentences(s) ==
    LET cuts == {i \in 2..Len(s) : s[i - 1] \in Terminators /\ s[i] \in Whitespace}
    IN  IF cuts = {} THEN <<s>>
        ELSE LET at == CHOOSE i \in cuts : \A j \in cuts : i <= j
             IN  <<SubSeq(s, 1, at - 1)>>
                   \o split_sentences(lstrip(SubSeq(s, at, Len(s))))

\* the pieces p.strip() of a list of pieces for which p.strip() is not empty
RECURSIVE strip_nonempty(_)
strip_nonempty(ps) ==
    IF ps = <<>> THEN <<>>
    ELSE (IF strip(Head(ps)) = <<>> THEN <<>> ELSE <<strip(Head(ps))>>)
           \o strip_nonempty(Tail(ps))

Digit == <<"0", "1", "2", "3", "4", "5", "6", "7", "8", "9">>

\* str(n) of a natural number
RECURSIVE str_int(_)
str_int(n) ==
    IF n < 10 THEN <<Digit[n + 1]>> ELSE str_int(n \div 10) \o <<Digit[(n % 10) + 1]>>

\* f"{n:0w}": at least w digits, zeros to the left
format_int(n, w) ==
    [k \in 1..(w - Len(str_int(n))) |-> "0"] \o str_int(n)

\* --split values: two literal patterns and one that re cannot compile
SplitPatterns == {<<"\n", "\n">>, <<"-">>, <<"(">>}
Malformed(p) == p = <<"(">>

\* names the glob of a segmentation tool can match, and file bodies
SegNames == {<<"a", "x", ".", "txt">>, <<"a", "y", ".", "txt">>, <<"c", ".", "txt">>}
SegRenames == {<<<<"x">>, <<"y">>>>, <<<<"x">>, <<"z">>>>}
SegTexts ==
    { <<>>,
      <<" ", "\n">>,
      <<"A", ".", " ", "B", "-", " ", "-", "C">>,
      <<"A", ".", "\n", "\n", "B", "!">>,
      <<"A", "\n", "\n", "\n", "\n", " ", "B", ".", "\n">> }
SegTools == {"paragraph", "sentence", "regex"}

\* the units a tool makes of the text of one source file
segment(content) ==
    CASE tool = "paragraph" -> strip_nonempty(split_on(content, <<"\n", "\n">>))
      [] tool = "sentence"  -> split_sentences(strip(content))
      [] tool = "regex"     -> strip_nonempty(split_on(content, split_str))

\* width of the sequence index in a unit file name
index_width == IF tool = "sentence" THEN 4 ELSE 2

\* base name of the output files of a source file
seg_base_name(file_path) ==
    str_replace(splitext_root(basename(file_path)), find_str, replace_str)

\* the name without the base name of the source file
unit_file_name_NoBase(file_path, i) ==
    format_int(i, index_width) \o <<".", "txt">>

\* f"{base_name}_{i:02}.txt" (f"{base_name}_{i:04}.txt" for sentences)
unit_file_name(file_path, i) ==
    seg_base_name(file_path) \o <<"_">> \o format_int(i, index_width) \o <<".", "txt">>

\* os.makedirs and glob.glob: the run starts
SegStart ==
    /\ pc = "SIdle"
    /\ dirMade' = TRUE
    /\ idx' = 1
    /\ pc' = "SLoop"
    /\ UNCHANGED <<inputVars, tool, split_str, contents, nread, units, uidx,
                   log, spawns, results, runs, childVars, fileVars>>

\* one iteration: the source file is read and its text is cut into units
SegRead ==
    /\ pc = "SLoop" /\ idx <= Len(matched)
    /\ ~(tool = "regex" /\ Malformed(split_str))
    /\ nread' = nread + 1
    /\ units' = segment(contents[idx])
    /\ uidx' = 1
    /\ pc' = "SUnits"
    /\ UNCHANGED <<inputVars, tool, split_str, contents, dirMade, idx,
                   log, spawns, results, runs, childVars, fileVars>>

\* t2t: the source file is read, then re.split raises re.error, which only
\* main's "except Exception" catches
SegSplitRaises ==
    /\ pc = "SLoop" /\ idx <= Len(matched)
    /\ tool = "regex" /\ Malformed(split_str)
    /\ nread' = nread + 1
    /\ log' = Append(log, [kind |-> "unexpected", path |-> ChunkPath(matched[idx])])
    /\ pc' = "SAborted"
    /\ runs' = runs + 1
    /\ UNCHANGED <<inputVars, tool, split_str, contents, dirMade, units, uidx, idx,
                   spawns, results, childVars, fileVars>>

\* t2t: open(file_path) raises FileNotFoundError, the file is skipped
SegReadNotFound ==
    /\ pc = "SLoop" /\ idx <= Len(matched)
    /\ tool = "regex"
    /\ Len(log) < MaxFaults
    /\ log' = Append(log, [kind |-> "read", path |-> ChunkPath(matched[idx])])
    /\ idx' = idx + 1
    /\ UNCHANGED <<inputVars, segVars, pc, spawns, results, runs, childVars, fileVars>>

\* reading raises an exception no handler of the loop catches: any one in
\* text2paragraph and paragraph2sentences, any but FileNotFoundError in t2t
SegReadError ==
    /\ pc = "SLoop" /\ idx <= Len(matched)
    /\ Len(log) < MaxFaults
    /\ log' = Append(log, [kind |-> "read", path |-> ChunkPath(matched[idx])])
    /\ pc' = "SAborted"
    /\ runs' = runs + 1
    /\ UNCHANGED <<inputVars, segVars, idx, spawns, results, childVars, fileVars>>

\* the units numbered as enumerate(units) would, from 0
SegWriteUnit_FromZero ==
    /\ pc = "SUnits" /\ uidx <= Len(units)
    /\ dst' = (unit_file_name(ChunkPath(matched[idx]), uidx - 1) :> units[uidx]) @@ dst
    /\ uidx' = uidx + 1
    /\ UNCHANGED <<inputVars, tool, split_str, contents, dirMade, nread, units,
                   pc, idx, log, spawns, results, runs, childVars, output_file>>

\* one unit is written to its own file
SegWriteUnit ==
    /\ pc = "SUnits" /\ uidx <= Len(units)
    /\ dst' = (unit_file_name(ChunkPath(matched[idx]), uidx) :> units[uidx]) @@ dst
    /\ uidx' = uidx + 1
    /\ UNCHANGED <<inputVars, tool, split_str, contents, dirMade, nread, units,
                   pc, idx, log, spawns, results, runs, childVars, output_file>>

\* t2t: writing a unit raises, the error is logged and the loop goes on
SegWriteFails ==
    /\ pc = "SUnits" /\ uidx <= Len(units)
    /\ tool = "regex"
    /\ Len(log) < MaxFaults
    /\ log' = Append(log, [kind |-> "write",
                           path |-> unit_file_name(ChunkPath(matched[idx]), uidx)])
    /\ uidx' = uidx + 1
    /\ UNCHANGED <<inputVars, tool, split_str, contents, dirMade, nread, units,
                   pc, idx, spawns, results, runs, childVars, fileVars>>

\* text2paragraph, paragraph2sentences: writing a unit raises, uncaught
SegWriteError ==
    /\ pc = "SUnits" /\ uidx <= Len(units)
    /\ tool # "regex"
    /\ Len(log) < MaxFaults
    /\ log' = Append(log, [kind |-> "write",
                           path |-> unit_file_name(ChunkPath(matched[idx]), uidx)])
    /\ pc' = "SAborted"
    /\ runs' = runs + 1
    /\ UNCHANGED <<inputVars, segVars, idx, spawns, results, childVars, fileVars>>

\* the units of a source file are written: next file
SegNextFile ==
    /\ pc = "SUnits" /\ uidx > Len(units)
    /\ idx' = idx + 1
    /\ units' = <<>>
    /\ uidx' = 0
    /\ pc' = "SLoop"
    /\ UNCHANGED <<inputVars, tool, split_str, contents, dirMade, nread,
                   log, spawns, results, runs, childVars, fileVars>>

\* the loop over the matched files is over
SegFinish ==
    /\ pc = "SLoop" /\ idx > Len(matched)
    /\ pc' = "SDone"
    /\ runs' = runs + 1
    /\ UNCHANGED <<inputVars, segVars, idx, log, spawns, results, childVars, fileVars>>

InitSeg ==
    /\ pc = "SIdle"
    /\ pattern = <<>>
    /\ configLines = <<>>
    /\ urlGiven = FALSE
    /\ tool \in SegTools
    /\ split_str \in (IF tool = "regex" THEN SplitPatterns ELSE {<<>>})
    /\ matched \in DistinctSeqs(SegNames, MaxSources)
    /\ contents \in [1..Len(matched) -> SegTexts]
    /\ \E fr \in SegRenames : find_str = fr[1] /\ replace_str = fr[2]
    /\ dirMade = FALSE /\ nread = 0 /\ units = <<>> /\ uidx = 0
    /\ runs = 0
    /\ idx = 0
    /\ output_file = <<>>
    /\ dst = <<>>
    /\ log = <<>>
    /\ spawns = <<>>
    /\ results = <<>>
    /\ ChildIdle

NextSeg ==
    \/ SegStart
    \/ SegRead
    \/ SegSplitRaises
    \/ SegReadNotFound
    \/ SegReadError
    \/ SegWriteUnit
    \/ SegWriteFails
    \/ SegWriteError
    \/ SegNextFile
    \/ SegFinish

SpecSeg == InitSeg /\ [][NextSeg]_vars

(***************************************************************************)
(* C12: numbering of the unit files                                         *)
(***************************************************************************)
\* the name of the file of unit i of the source file at hand
UnitFile(i) == unit_file_name(ChunkPath(matched[idx]), i)

\* every unit of the source file at hand has been written or has failed
SourceDone == pc = "SUnits" /\ uidx > Len(units)

\* a failed write of file f is in the log
WriteFailed(f) == \E k \in 1..Len(log) : log[k].kind = "write" /\ log[k].path = f

\* the pieces us occur in text one after the other, without overlap
RECURSIVE InOrder(_, _)
InOrder(text, us) ==
    \/ us = <<>>
    \/ \E p \in 1..(Len(text) - Len(Head(us)) + 1) :
          /\ SubSeq(text, p, p + Len(Head(us)) - 1) = Head(us)
          /\ InOrder(SubSeq(text, p + Len(Head(us)), Len(text)), Tail(us))

C13_NoEmptyUnitFile ==
    \A f \in DOMAIN dst : strip(dst[f]) # <<>>

(***************************************************************************)
(* C14: collisions of output file names                                     *)
(***************************************************************************)
\* a successful write of the unit at hand is possible now
AboutToWrite == pc = "SUnits" /\ uidx <= Len(units)

\* the matched source files have pairwise distinct base names after
\* find/replace
BasesDistinct ==
    \A i, j \in 1..Len(matched) :
        i # j => seg_base_name(ChunkPath(matched[i])) # seg_base_name(ChunkPath(matched[j]))

\* sequence indices around the places where the number of digits changes
IndexSamples == {1, 9, 10, 99, 100}

\* C14 as stated: the destination being empty at the start of the run and
\* the matched names distinct, the file a unit is about to be written to
\* does not exist yet.
C14_NoOverwrite ==
    AboutToWrite => UnitFile(uidx) \notin DOMAIN dst

\* C14: when the base names of the matched files stay pairwise distinct
\* under find/replace, the file a unit is about to be written to does not
\* exist yet; and two (source, index) pairs that differ in the transformed
\* base name or in the index never have the same output file name.
C14_DistinctBasesNoOverwrite ==
    /\ (AboutToWrite /\ BasesDistinct) => UnitFile(uidx) \notin DOMAIN dst
    /\ pc = "SIdle" =>
        \A i, j \in 1..Len(matched) : \A m, n \in IndexSamples :
          (seg_base_name(ChunkPath(matched[i])) # seg_base_name(ChunkPath(matched[j])) \/ m # n)
            => unit_file_name(ChunkPath(matched[i]), m) # unit_file_name(ChunkPath(matched[j]), n)

\* the second source file is about to write a unit next to the unit files
\* of the first, their transformed base names being distinct
C14_Witness ==
    AboutToWrite /\ idx = 2 /\ BasesDistinct /\ dst # <<>>

(***************************************************************************)
(* C15, C16: failures of the segmentation tools                             *)
(***************************************************************************)
\* the run of the segmentation tool has ended
SegEnded == pc \in {"SDone", "SAborted"}

\* C15: with a malformed split pattern t2t never creates the destination
\* directory, reads no source file, writes no unit file and does not end
\* normally, however many files match.
C15_MalformedPatternFailsFirst ==
    (tool = "regex" /\ Malformed(split_str)) =>
        /\ ~dirMade
        /\ nread = 0
        /\ dst = <<>>
        /\ pc # "SDone"

\* a failed read of the i-th matched file is in the log
ReadFailed(i) ==
    \E k \in 1..Len(log) : log[k].kind = "read" /\ log[k].path = ChunkPath(matched[i])

\* C16: when a run in which nothing but reads failed has ended, every
\* matched file whose read did not fail has been segmented.
C16_UnreadableFileSkipped ==
    (SegEnded /\ \A k \in 1..Len(log) : log[k].kind = "read") =>
        \A i \in 1..Len(matched) : ReadFailed(i) \/ idx > i

(***************************************************************************)
(* C17: what the destination holds for failed and successful chunks         *)
(***************************************************************************)
\* the destination file of the i-th matched chunk
OutOf(i) == output_file_of(ChunkPath(matched[i]))

\* the last chunk, in enumeration order, whose destination file is f
LastFor(f) ==
    CHOOSE i \in 1..Len(matched) :
        OutOf(i) = f /\ \A j \in 1..Len(matched) : OutOf(j) = f => j <= i

\* what a successful child leaves in a file that was empty
IsResponse(text) == \E resp \in Responses : text = resp \o <<"\n">>

\* C17 as stated: when the run is done, the destination file of every
\* chunk whose child failed is empty, and every non-empty destination file
\* is a response and belongs to successful chunks only.
C17_FailedChunkFileEmpty ==
    pc = "Done" =>
        /\ \A i \in 1..Len(matched) : results[i] # 0 => dst[OutOf(i)] = <<>>
        /\ \A f \in DOMAIN dst :
              dst[f] # <<>> =>
                  /\ IsResponse(dst[f])
                  /\ \A i \in 1..Len(matched) : OutOf(i) = f => results[i] = 0

\* C17: a child that ends with a non-zero status has printed nothing and a
\* child that ends with status 0 has printed exactly one response; when the
\* run is done, every destination file is that of some chunk, it is empty
\* if the last chunk of that name failed, and if it is not empty it holds
\* exactly one response and the last chunk of that name succeeded.
C17_FailedChildPrintsNothing ==
    /\ ChildEnded =>
          /\ rc # 0 => dst[output_file] = <<>>
          /\ rc = 0 => IsResponse(dst[output_file])
    /\ pc = "Done" =>
          /\ DOMAIN dst = {OutOf(i) : i \in 1..Len(matched)}
          /\ \A f \in DOMAIN dst :
                /\ results[LastFor(f)] # 0 => dst[f] = <<>>
                /\ dst[f] # <<>> => (results[LastFor(f)] = 0 /\ IsResponse(dst[f]))

\* the run is done: a chunk failed, a later chunk of the same destination
\* file succeeded and the file holds its response
C17_Witness ==
    /\ pc = "Done"
    /\ \E i, j \in 1..Len(matched) :
          /\ i < j /\ OutOf(i) = OutOf(j)
          /\ results[i] # 0 /\ results[j] = 0
          /\ dst[OutOf(i)] # <<>>

====
